---- MODULE Spec2Model ----
(***************************************************************************)
(* Model of InMemoryEventStore (src/salesforce_mcp/event_store.py): the    *)
(* per-stream bounded event buffers, the global event index, store_event   *)
(* and replay_events_after.  Both are coroutines of one asyncio event      *)
(* loop: store_event has no await and runs as one step; every              *)
(* `await send_callback(...)` in replay_events_after is a point where      *)
(* other coroutines may run.                                               *)
(***************************************************************************)
EXTENDS Integers, Sequences, FiniteSets, TLC

\* ---- bounds of the model ------------------------------------------------
MaxCap == 3          \* largest capacity passed to the constructor
MaxEvents == 4       \* number of store_event calls (uuid4 draws) explored
NumStreams == 2      \* distinct stream ids used by callers

Capacities == (0 - 1)..MaxCap
StreamIds == 1..NumStreams
Messages == {"m1"}            \* payloads, opaque to the store
EventIds == 1..MaxEvents
Replayers == {"r1", "r2"}    \* sessions that may be resuming at the same time

\* how a call stands or ended, and the value it returned if it returned one
Outcome(kind, value) == [kind |-> kind, value |-> value]
Returned(value) == Outcome("returned", value)    \* `return value`
None == Outcome("None", 0)                       \* `return None`
NotCalled == Outcome("NotCalled", 0)             \* no call made so far
Pending == Outcome("Pending", 0)                 \* suspended in `await send_callback`
RuntimeError == Outcome("RuntimeError", 0)       \* deque mutated during iteration
IndexError == Outcome("IndexError", 0)           \* deque index out of range
ValueError == Outcome("ValueError", 0)           \* maxlen must be non-negative

VARIABLES
  max_events_per_stream,  \* self.max_events_per_stream
  streams,                \* self.streams: stream id -> deque
  event_index,            \* self.event_index: event id -> EventEntry
  issued,                 \* number of ids drawn from uuid4 so far
  store_outcome,          \* what the last store_event returned or raised
  task                    \* per caller: the frame of its replay_events_after call

vars == <<max_events_per_stream, streams, event_index, issued, store_outcome, task>>

\* ---- data ---------------------------------------------------------------
EventEntry(event_id, stream_id, message) ==
  [event_id |-> event_id, stream_id |-> stream_id, message |-> message]

EventMessage(message, event_id) == [message |-> message, event_id |-> event_id]

\* collections.deque(maxlen=...): items in insertion order, the bound, and
\* the mutation counter its iterators compare against
Deque(maxlen) == [items |-> <<>>, maxlen |-> maxlen, state |-> 0]

\* an append that ignores maxlen
DequeAppendUnbounded(d, x) ==
  [d EXCEPT !.items = Append(d.items, x), !.state = d.state + 1]

\* appendleft in place of append: a full deque drops its rightmost item
DequeAppendLeft(d, x) ==
  [d EXCEPT !.items = IF d.maxlen = 0 THEN <<>>
                      ELSE IF Len(d.items) = d.maxlen
                           THEN <<x>> \o SubSeq(d.items, 1, Len(d.items) - 1)
                           ELSE <<x>> \o d.items,
            !.state = d.state + 1]

\* deque.append on a bounded deque: a full deque drops its leftmost item
DequeAppend(d, x) ==
  [d EXCEPT !.items = IF d.maxlen = 0 THEN <<>>
                      ELSE IF Len(d.items) = d.maxlen THEN Append(Tail(d.items), x)
                      ELSE Append(d.items, x),
            !.state = d.state + 1]

\* str(uuid4()): an id never drawn before
uuid4 == issued + 1

\* [-1] in place of [0]
NewestEvent(d) == d.items[Len(d.items)]

\* self.streams[stream_id][0]
OldestEvent(d) == d.items[1]

\* a pop that removes nothing
IndexKeep(index, event_id) == index

\* self.event_index.pop(event_id, None)
IndexPop(index, event_id) == [k \in (DOMAIN index) \ {event_id} |-> index[k]]

\* a test that fires one append early
IsNearlyFull(d) == Len(d.items) >= max_events_per_stream - 1

\* `>` in place of `==`
IsOverFull(d) == Len(d.items) > max_events_per_stream

\* the test that the deque is about to evict
IsFull(d) == Len(d.items) = max_events_per_stream

\* a caller's frame before any call
IdleFrame ==
  [pc |-> "idle", last_event_id |-> 0, stream_id |-> 0, it_index |-> 0,
   it_state |-> 0, replayed_count |-> 0, delivered |-> <<>>, view |-> <<>>,
   result |-> NotCalled]

\* ---- construction -------------------------------------------------------
\* __init__ stores its argument unchecked and starts with empty dicts
Init ==
  /\ max_events_per_stream \in Capacities
  /\ streams = <<>>
  /\ event_index = <<>>
  /\ issued = 0
  /\ store_outcome = NotCalled
  /\ task = [r \in Replayers |-> IdleFrame]

\* ---- store_event --------------------------------------------------------
store_event(stream_id, message) ==
  /\ issued < MaxEvents
  /\ issued' = uuid4
  /\ LET event_id == uuid4
         event_entry == EventEntry(event_id, stream_id, message)
     IN  IF stream_id \notin DOMAIN streams /\ max_events_per_stream < 0
         THEN \* deque(maxlen=negative) raises before the dict is assigned
              /\ store_outcome' = ValueError
              /\ UNCHANGED <<streams, event_index>>
         ELSE LET created == IF stream_id \in DOMAIN streams THEN streams
                             ELSE streams @@ (stream_id :> Deque(max_events_per_stream))
                  d == created[stream_id]
              IN  IF IsFull(d) /\ Len(d.items) = 0
                  THEN \* [0] on an empty deque raises; the new deque stays
                       /\ store_outcome' = IndexError
                       /\ streams' = created
                       /\ UNCHANGED event_index
                  ELSE LET popped == IF IsFull(d)
                                     THEN IndexPop(event_index, OldestEvent(d).event_id)
                                     ELSE event_index
                       IN  /\ streams' = [created EXCEPT ![stream_id] = DequeAppend(d, event_entry)]
                           /\ event_index' = popped @@ (event_id :> event_entry)
                           /\ store_outcome' = Returned(event_id)
  /\ UNCHANGED <<max_events_per_stream, task>>

\* ---- replay_events_after ------------------------------------------------
\* the for loop of the scan, run from the item at position i until it calls
\* send_callback ("send": item i is handed over) or the iterator is exhausted
\* a loop that hands over the anchor itself
RECURSIVE scan_from_anchor(_, _, _, _)
scan_from_anchor(items, i, found_last, last_event_id) ==
  IF i > Len(items) THEN [kind |-> "exhausted", index |-> i]
  ELSE IF found_last \/ items[i].event_id = last_event_id
       THEN [kind |-> "send", index |-> i]
       ELSE scan_from_anchor(items, i + 1, FALSE, last_event_id)

RECURSIVE scan(_, _, _, _)
scan(items, i, found_last, last_event_id) ==
  IF i > Len(items) THEN [kind |-> "exhausted", index |-> i]
  ELSE IF found_last THEN [kind |-> "send", index |-> i]
  ELSE scan(items, i + 1, items[i].event_id = last_event_id, last_event_id)

\* the first stream of the dict, whatever the entry says
ResolveFirstStream(last_event) == CHOOSE s \in DOMAIN streams : TRUE

\* last_event.stream_id
ResolveStream(last_event) == last_event.stream_id

\* the call is over (a return or a raise): its locals are gone, what stays
\* is its argument, its outcome and what send_callback was given
Return(frame, outcome) ==
  [IdleFrame EXCEPT !.last_event_id = frame.last_event_id,
                    !.delivered = frame.delivered,
                    !.result = outcome]

\* a miss that falls back to handing over a whole buffer
MissReplaysAll(last_event_id) ==
  LET s == CHOOSE x \in DOMAIN streams \cup {0} : x \in DOMAIN streams \/ DOMAIN streams = {}
      items == IF s \in DOMAIN streams THEN streams[s].items ELSE <<>>
  IN  Return([IdleFrame EXCEPT !.last_event_id = last_event_id,
                !.delivered = [i \in 1..Len(items) |->
                                 EventMessage(items[i].message, items[i].event_id)]],
             None)

\* last_event_id is not in the index: warn and return None
Miss(last_event_id) ==
  Return([IdleFrame EXCEPT !.last_event_id = last_event_id], None)

\* the frame after the loop ran one stretch over deque d from position i
Advance(frame, d, i, found_last) ==
  LET step == scan(d.items, i, found_last, frame.last_event_id)
  IN  IF step.kind = "send"
      THEN [frame EXCEPT !.pc = "awaiting", !.it_index = step.index,
                         !.delivered = Append(frame.delivered,
                              EventMessage(d.items[step.index].message,
                                           d.items[step.index].event_id)),
                         !.result = Pending]
      ELSE Return(frame, Returned(frame.stream_id))

\* the call up to its first await or its return
replay_events_after(r, last_event_id) ==
  /\ task[r].pc = "idle"
  /\ IF last_event_id \notin DOMAIN event_index
     THEN task' = [task EXCEPT ![r] = Miss(last_event_id)]
     ELSE LET last_event == event_index[last_event_id]
              stream_id == ResolveStream(last_event)
              stream_events == IF stream_id \in DOMAIN streams
                               THEN streams[stream_id] ELSE Deque(0)
              frame == [IdleFrame EXCEPT !.last_event_id = last_event_id,
                                         !.stream_id = stream_id,
                                         !.it_state = stream_events.state,
                                         !.view = stream_events.items]
          IN  task' = [task EXCEPT ![r] = Advance(frame, stream_events, 1, FALSE)]
  /\ UNCHANGED <<max_events_per_stream, streams, event_index, issued,
                 store_outcome>>

\* send_callback returned: count it and ask the deque iterator for the next item
replay_resume(r) ==
  /\ task[r].pc = "awaiting"
  /\ LET frame == [task[r] EXCEPT !.replayed_count = @ + 1]
         d == streams[frame.stream_id]
     IN  IF d.state # frame.it_state
         THEN task' = [task EXCEPT ![r] = Return(frame, RuntimeError)]
         ELSE task' = [task EXCEPT ![r] = Advance(frame, d, frame.it_index + 1, TRUE)]
  /\ UNCHANGED <<max_events_per_stream, streams, event_index, issued,
                 store_outcome>>

\* ---- specification ------------------------------------------------------
Next ==
  \/ \E stream_id \in StreamIds, message \in Messages : store_event(stream_id, message)
  \/ \E r \in Replayers, last_event_id \in EventIds : replay_events_after(r, last_event_id)
  \/ \E r \in Replayers : replay_resume(r)

Spec == Init /\ [][Next]_vars

TypeOK ==
  /\ max_events_per_stream \in Capacities
  /\ DOMAIN streams \subseteq StreamIds
  /\ DOMAIN event_index \subseteq EventIds
  /\ issued \in 0..MaxEvents
  /\ \A r \in Replayers : task[r].pc \in {"idle", "awaiting"}

\* ---- vocabulary of the properties ---------------------------------------
IdsIn(items) == {items[i].event_id : i \in 1..Len(items)}

BufferedIds == UNION {IdsIn(streams[s].items) : s \in DOMAIN streams}

\* the events of a buffer that come after the event named id
SuffixAfter(items, id) ==
  IF id \in IdsIn(items)
  THEN LET k == CHOOSE i \in 1..Len(items) : items[i].event_id = id
       IN  SubSeq(items, k + 1, Len(items))
  ELSE <<>>

AsMessages(items) ==
  [i \in 1..Len(items) |-> EventMessage(items[i].message, items[i].event_id)]

\* a step in which caller r enters replay_events_after
CallStep(r) == task[r].pc = "idle" /\ task'[r] # task[r]

\* a step in which r's call ends, by a return or by a raise
EndStep(r) == task'[r].pc = "idle" /\ task'[r] # task[r]

\* a step in which send_callback is invoked for r
DeliverStep(r) == task'[r].pc = "awaiting" /\ task'[r] # task[r]

\* the buffer contents r's scan started from
ViewOf(r) ==
  IF task[r].pc = "awaiting" THEN task[r].view
  ELSE LET id == task'[r].last_event_id
       IN  IF id \in DOMAIN event_index /\ event_index[id].stream_id \in DOMAIN streams
           THEN streams[event_index[id].stream_id].items ELSE <<>>

\* the stream's buffer was full and lost its oldest event to an append
Evicted(s) ==
  /\ max_events_per_stream > 0
  /\ DOMAIN streams = {s}
  /\ Len(streams[s].items) = max_events_per_stream
  /\ streams[s].items[1].event_id > 1

\* ---- C1 -----------------------------------------------------------------
\* C1: for every capacity C > 0, in every reachable state each stream's
\* buffer holds at most C events, also right after an append to a full buffer.
BoundedSize ==
  max_events_per_stream > 0 =>
    \A s \in DOMAIN streams : Len(streams[s].items) <= max_events_per_stream

\* an append to a full buffer has happened and the buffer is still full
BoundedSizeWitness ==
  \E s \in DOMAIN streams : Evicted(s) /\ store_outcome = Returned(issued)

\* ---- C2 -----------------------------------------------------------------
\* C2: in every reachable state the keys of the index are exactly the ids of
\* the events held in some stream buffer, and each index entry is the entry
\* held in the buffer of the stream it records.
IndexMatchesBuffers ==
  /\ DOMAIN event_index = BufferedIds
  /\ \A id \in DOMAIN event_index :
       /\ event_index[id].event_id = id
       /\ event_index[id].stream_id \in DOMAIN streams
       /\ \E i \in 1..Len(streams[event_index[id].stream_id].items) :
            streams[event_index[id].stream_id].items[i] = event_index[id]

\* appends with an eviction, then a replay call, with two streams in use
IndexMatchesBuffersWitness ==
  /\ Cardinality(DOMAIN streams) = 2
  /\ Cardinality(BufferedIds) < issued
  /\ max_events_per_stream > 0
  /\ \E r \in Replayers : task[r].result.kind = "returned"

\* ---- C3 -----------------------------------------------------------------
\* C3: a replay_events_after call whose anchor is in the index hands to
\* send_callback exactly the events that were in the stream's buffer after
\* the anchor when the call was made, each once, in buffer order, and
\* nothing else.
ExactSuffixReplay ==
  [][\A r \in Replayers :
       (EndStep(r) /\ task'[r].result # None) =>
         task'[r].delivered =
           AsMessages(SuffixAfter(ViewOf(r), task'[r].last_event_id))]_vars

\* what the code does keep: a call that returns has handed over exactly the
\* events after the anchor in the buffer as it is at the return
ReturnedExactSuffix ==
  [][\A r \in Replayers :
       (EndStep(r) /\ task'[r].result.kind = "returned") =>
         task'[r].delivered =
           AsMessages(SuffixAfter(streams'[task'[r].result.value].items,
                                  task'[r].last_event_id))]_vars

\* ---- C4 -----------------------------------------------------------------
\* C4: replay_events_after(id) returns None exactly when id names no
\* buffered event (never issued, or evicted); after C+1 appends to the only
\* stream of a store of capacity C the first id is not found and the second
\* still resolves.
NotFoundIffGone ==
  [][\A r \in Replayers :
       CallStep(r) =>
         LET id == task'[r].last_event_id
         IN  /\ (task'[r].result = None) <=> (id \notin BufferedIds)
             /\ \A s \in DOMAIN streams :
                  (/\ DOMAIN streams = {s}
                   /\ max_events_per_stream > 0
                   /\ issued = max_events_per_stream + 1) =>
                    /\ id = 1 => task'[r].result = None
                    /\ id = 2 => task'[r].result # None]_vars

\* C+1 appends to one stream, then the first id was not found and the
\* second resolved
NotFoundIffGoneWitness ==
  /\ \E s \in DOMAIN streams : Evicted(s)
  /\ issued = max_events_per_stream + 1
  /\ \E r1, r2 \in Replayers :
       /\ task[r1].last_event_id = 1 /\ task[r1].result = None
       /\ task[r2].last_event_id = 2 /\ task[r2].result \notin {None, NotCalled}

\* ---- C5 -----------------------------------------------------------------
\* C5: a scan that is suspended in send_callback while an append to its
\* stream runs still completes without failure.
ScanSurvivesAppend ==
  \A r \in Replayers : task[r].result # RuntimeError

\* ---- C6 -----------------------------------------------------------------
\* C6: every step changes the buffers and the index together: the ids a
\* step removes from the buffers are the ids it removes from the index, the
\* ids it adds to the buffers are the ids it adds to the index, and each
\* step of a replay call finds index and buffers in agreement.
AtomicAppend ==
  [][/\ BufferedIds' \ BufferedIds = (DOMAIN event_index') \ (DOMAIN event_index)
     /\ BufferedIds \ BufferedIds' = (DOMAIN event_index) \ (DOMAIN event_index')
     /\ \A r \in Replayers :
          task'[r] # task[r] => DOMAIN event_index = BufferedIds]_vars

\* an append evicted an event of the buffer a suspended scan started from
AtomicAppendWitness ==
  \E r \in Replayers :
    /\ task[r].pc = "awaiting"
    /\ store_outcome.kind = "returned"
    /\ store_outcome.value \notin IdsIn(task[r].view)
    /\ store_outcome.value \in IdsIn(streams[task[r].stream_id].items)
    /\ \E id \in IdsIn(task[r].view) : id \notin BufferedIds

\* ---- C7 -----------------------------------------------------------------
\* C7: a store whose max_events_per_stream is zero or negative is never
\* operated: no store_event and no replay_events_after runs on it, and
\* store_event never fails at run time because of the capacity.
BadCapacityNeverOperated ==
  /\ max_events_per_stream <= 0 =>
       (issued = 0 /\ \A r \in Replayers : task[r].result = NotCalled)
  /\ store_outcome \notin {IndexError, ValueError}

\* ---- C8 -----------------------------------------------------------------
\* C8: a call whose anchor is an event of stream s1 hands over only events
\* of s1's buffer, none of another stream's, works on s1 and returns s1.
CrossStreamIsolation ==
  [][\A r \in Replayers : \A s1 \in DOMAIN streams :
       (task'[r] # task[r] /\ task'[r].last_event_id \in IdsIn(streams[s1].items)) =>
         /\ DeliverStep(r) =>
              LET m == task'[r].delivered[Len(task'[r].delivered)]
              IN  /\ m.event_id \in IdsIn(streams[s1].items)
                  /\ \A s2 \in DOMAIN streams \ {s1} :
                       m.event_id \notin IdsIn(streams[s2].items)
                  /\ task'[r].stream_id = s1
         /\ task'[r].result.kind = "returned" => task'[r].result.value = s1
         /\ CallStep(r) => task'[r].result \in {Pending, Returned(s1)}]_vars

\* appends to two streams interleaved; the replay skipped the other
\* stream's event that lies between the anchor and the delivered event
CrossStreamIsolationWitness ==
  \E r \in Replayers :
    /\ task[r].result.kind = "returned"
    /\ Len(task[r].delivered) >= 1
    /\ \E s2 \in DOMAIN streams \ {task[r].result.value} :
         \E id \in IdsIn(streams[s2].items) :
           /\ task[r].last_event_id < id
           /\ id < task[r].delivered[1].event_id

\* ---- C9 -----------------------------------------------------------------
\* C9: a call whose anchor is the last event of its stream's buffer invokes
\* send_callback zero times, returns that stream's id at once and changes
\* nothing in the store, so the same call repeated gives the same result.
TailReplayIsNoop ==
  [][\A r \in Replayers : \A s \in DOMAIN streams :
       (/\ CallStep(r)
        /\ Len(streams[s].items) > 0
        /\ streams[s].items[Len(streams[s].items)].event_id = task'[r].last_event_id) =>
         /\ task'[r].pc = "idle"
         /\ task'[r].delivered = <<>>
         /\ task'[r].result = Returned(s)
         /\ UNCHANGED <<streams, event_index>>]_vars

\* a call on the tail of a buffer of at least two events returned the stream
TailReplayIsNoopWitness ==
  \E r \in Replayers : \E s \in DOMAIN streams :
    /\ Len(streams[s].items) >= 2
    /\ streams[s].items[Len(streams[s].items)].event_id = task[r].last_event_id
    /\ task[r].result = Returned(s)
    /\ task[r].delivered = <<>>

\* ---- C10 ----------------------------------------------------------------
\* C10: a call that returns None has invoked send_callback zero times and
\* leaves the buffers, the set of streams and the index as they were.
NotFoundNoSideEffects ==
  [][\A r \in Replayers :
       (CallStep(r) /\ task'[r].result = None) =>
         /\ task'[r].delivered = <<>>
         /\ task'[r].pc = "idle"
         /\ UNCHANGED <<streams, event_index, max_events_per_stream>>]_vars

\* a call on an evicted id returned None while events are buffered
NotFoundNoSideEffectsWitness ==
  \E r \in Replayers :
    /\ task[r].result = None
    /\ task[r].last_event_id <= issued
    /\ task[r].delivered = <<>>
    /\ max_events_per_stream > 0
    /\ BufferedIds # {}

\* a step of store_event: the only operation that draws an id
StoreStep == issued' # issued

\* ---- C11 ----------------------------------------------------------------
\* C11: with a capacity C > 0 every store_event returns an event id, also
\* for a stream never seen before and for a full buffer; on return the new
\* event is the last of its stream's buffer and is in the index under an id
\* no index entry had before; a replay call on any buffered id is not
\* answered None, and a replay call on the event just before the tail is
\* handed the tail.
AppendVisible ==
  [][/\ (StoreStep /\ max_events_per_stream > 0) =>
          LET id == store_outcome'.value
          IN  /\ store_outcome'.kind = "returned"
              /\ id \notin DOMAIN event_index
              /\ id \in DOMAIN event_index'
              /\ \E s \in DOMAIN streams' :
                   LET items == streams'[s].items
                   IN  /\ Len(items) > 0
                       /\ items[Len(items)].event_id = id
                       /\ items[Len(items)] = event_index'[id]
                       /\ event_index'[id].stream_id = s
     /\ \A r \in Replayers :
          CallStep(r) =>
            LET id == task'[r].last_event_id
            IN  /\ id \in BufferedIds => task'[r].result # None
                /\ \A s \in DOMAIN streams :
                     LET items == streams[s].items
                     IN  (Len(items) >= 2 /\ items[Len(items) - 1].event_id = id) =>
                           task'[r].delivered =
                             <<EventMessage(items[Len(items)].message,
                                            items[Len(items)].event_id)>>]_vars

\* an append to a full buffer evicted an event, then a replay call on the
\* previous tail was handed the new event
AppendVisibleWitness ==
  \E r \in Replayers : \E s \in DOMAIN streams :
    LET items == streams[s].items
    IN  /\ Evicted(s)
        /\ Len(items) >= 2
        /\ store_outcome = Returned(items[Len(items)].event_id)
        /\ task[r].last_event_id = items[Len(items) - 1].event_id
        /\ task[r].delivered = <<EventMessage(items[Len(items)].message,
                                              items[Len(items)].event_id)>>

\* ---- C12 ----------------------------------------------------------------
\* every send_callback call returns, so a suspended scan is resumed
SpecFair == Spec /\ \A r \in Replayers : WF_vars(replay_resume(r))

\* C12: every replay call that went into its scan ends by returning the
\* stream id, having invoked send_callback at most C times, also when
\* store_event calls on the same stream ran while it was suspended; every
\* store_event call is over in the step that started it.
ReplayAlwaysReturns ==
  [][/\ \A r \in Replayers :
          (task[r].pc = "awaiting" /\ EndStep(r)) =>
            /\ task'[r].result = Returned(task[r].stream_id)
            /\ Len(task'[r].delivered) <= max_events_per_stream
     /\ StoreStep => store_outcome'.kind # "Pending"]_vars

\* what the code does keep: a suspended scan always comes to an end, by a
\* return or by a raise
ReplayTerminates ==
  \A r \in Replayers : (task[r].pc = "awaiting") ~> (task[r].pc = "idle")

\* what the code does keep: no call hands over more events than a buffer holds
DeliverBounded ==
  \A r \in Replayers :
    /\ max_events_per_stream > 0 => Len(task[r].delivered) < max_events_per_stream
    /\ max_events_per_stream <= 0 => task[r].delivered = <<>>

\* ---- C13 ----------------------------------------------------------------
\* C13: with a capacity C > 0, a store_event on a stream whose buffer holds
\* exactly C events removes exactly that stream's oldest event, from the
\* buffer and from the index, and keeps the others in order; on a buffer of
\* fewer than C events it removes nothing; it leaves every other stream's
\* buffer and every other index entry as they were; and no step of a replay
\* call, nor any other step, removes an event, an index entry or a stream.
EvictionExact ==
  [][/\ DOMAIN streams \subseteq DOMAIN streams'
     /\ \A id \in (DOMAIN event_index) \cap (DOMAIN event_index') :
          event_index'[id] = event_index[id]
     /\ \A r \in Replayers :
          task'[r] # task[r] => UNCHANGED <<streams, event_index>>
     /\ ~StoreStep => UNCHANGED <<streams, event_index>>
     /\ (StoreStep /\ max_events_per_stream > 0) =>
          \E s \in DOMAIN streams' :
            LET old == IF s \in DOMAIN streams THEN streams[s].items ELSE <<>>
                new == streams'[s].items
                e == new[Len(new)]
            IN  /\ Len(new) > 0
                /\ DOMAIN streams' = (DOMAIN streams) \cup {s}
                /\ \A t \in (DOMAIN streams) \ {s} : streams'[t] = streams[t]
                /\ (DOMAIN event_index') \ (DOMAIN event_index) = {e.event_id}
                /\ IF Len(old) = max_events_per_stream
                   THEN /\ new = Append(Tail(old), e)
                        /\ (DOMAIN event_index) \ (DOMAIN event_index') =
                             {old[1].event_id}
                   ELSE /\ new = Append(old, e)
                        /\ DOMAIN event_index \subseteq DOMAIN event_index']_vars

\* the last store_event evicted the one event that is gone, from a full
\* buffer, while another stream holds events and a replay call has been made
EvictionExactWitness ==
  \E s \in DOMAIN streams : \E t \in (DOMAIN streams) \ {s} :
    LET items == streams[s].items
    IN  /\ max_events_per_stream > 0
        /\ Len(items) = max_events_per_stream
        /\ store_outcome = Returned(items[Len(items)].event_id)
        /\ Len(streams[t].items) > 0
        /\ Len(streams[t].items) < max_events_per_stream
        /\ \E gone \in 1..issued :
             /\ BufferedIds = (1..issued) \ {gone}
             /\ gone < items[1].event_id
        /\ \E r \in Replayers : task[r].result # NotCalled
====
